---- MODULE Spec2Model ----
(***************************************************************************)
(* Model of poly-maker's market selection script (select_markets.py) and   *)
(* of the sheet consolidation helper get_sheet_df (poly_data/utils.py).    *)
(*                                                                         *)
(* Numbers are exact rationals n/d (d > 0): the sheet values used here are *)
(* small decimals, on which the float arithmetic of the program is exact   *)
(* as far as the comparisons made by the program go.                       *)
(***************************************************************************)
EXTENDS Integers, Sequences, FiniteSets, TLC

VARIABLES
    pc,            \* position of main() in select_markets.py
    exitStatus,    \* -1 while running, else the process exit status
    rawRecords,    \* 'Volatility Markets' as returned by get_all_records()
    vol_df,        \* main's vol_df
    filtered_df,   \* main's filtered_df
    top_markets,   \* main's top_markets
    sheet,         \* 'Selected Markets': all values, row 1 is the header
    prior,         \* content of 'Selected Markets' when the run started
    headers,       \* update_selected_markets' local headers
    pos,           \* update_selected_markets' loop position (rows appended)
    deleteCalls,   \* number of delete_rows calls made
    appendCalls,   \* number of append_row calls made
    clearOutcome,  \* what clear_selected_markets did: "none" before it ran,
                   \* "read_failed", "nothing", "deleted" or "delete_failed"
    diagnostic,    \* the failure main reported: "none", "connect", "load",
                   \* "empty", "worksheet" (uncaught) or "update"
    appendFailedAt,\* k when the k-th append_row call raised, else 0
    spc,           \* position of get_sheet_df()
    selRecords,    \* 'Selected Markets' as returned by get_all_records()
    allRecords,    \* 'All Markets' as returned by get_all_records()
    hypRecords,    \* 'Hyperparameters' as returned by get_all_records()
    result,        \* get_sheet_df's result frame
    hyperparams,   \* get_sheet_df's hyperparams
    current_type,  \* get_sheet_df's current_type (<<>> models None)
    hpos           \* number of Hyperparameters records consumed

mainVars == <<pc, exitStatus, rawRecords, vol_df, filtered_df, top_markets,
              sheet, prior, headers, pos, deleteCalls, appendCalls,
              clearOutcome, diagnostic, appendFailedAt>>
sheetVars == <<spc, selRecords, allRecords, hypRecords, result, hyperparams,
               current_type, hpos>>
vars == <<mainVars, sheetVars>>

----------------------------------------------------------------------------
(* Bounds of the model *)

MaxPool == 6       \* longest 'Volatility Markets' sheet of the pipeline runs
MaxExtra == 2      \* records following the varied record in the value runs
MaxPrior == 2      \* most data rows 'Selected Markets' holds before a run
MaxRows == 2       \* most rows of a sheet that get_sheet_df merges
MaxHyp == 3        \* most rows of the 'Hyperparameters' sheet

----------------------------------------------------------------------------
(* MarketConfig *)

TOP_N == 5
MIN_REWARD == 1
MAX_VOLATILITY == 15
MAX_MIN_SIZE == 300
MAX_SPREAD == [k |-> "float", n |-> 15, d |-> 100, s |-> ""]   \* 0.15
DEFAULT_PARAM_TYPE == "mid"
DEFAULT_MULTIPLIER == "1"

----------------------------------------------------------------------------
(* Values of a cell or of a frame entry.                                   *)
(*   k = "text": the string s                                              *)
(*   k = "int":  the integer n (d = 1)                                     *)
(*   k = "float": the float n/d                                            *)
(*   k = "nan":  the float NaN, pandas' missing-value marker               *)

Text(s) == [k |-> "text", n |-> 0, d |-> 1, s |-> s]
IntV(n) == [k |-> "int", n |-> n, d |-> 1, s |-> ""]
FloatV(n, d) == [k |-> "float", n |-> n, d |-> d, s |-> ""]
NaN == [k |-> "nan", n |-> 0, d |-> 1, s |-> ""]

IsNum(v) == v.k \in {"int", "float"}

(* Comparisons of numpy: every comparison with NaN is False. *)
NumGE(a, b) == IsNum(a) /\ IsNum(b) /\ a.n * b.d >= b.n * a.d
NumLT(a, b) == IsNum(a) /\ IsNum(b) /\ a.n * b.d < b.n * a.d
NumLE(a, b) == IsNum(a) /\ IsNum(b) /\ a.n * b.d <= b.n * a.d
NumEQ(a, b) == IsNum(a) /\ IsNum(b) /\ a.n * b.d = b.n * a.d

(* repr of a float with at most two decimals. *)
FloatStr(n, d) ==
    LET h == (n * 100) \div d
        ip == h \div 100
        fr == h % 100
    IN  ToString(ip) \o "." \o
        (IF fr % 10 = 0 THEN ToString(fr \div 10)
         ELSE IF fr < 10 THEN "0" \o ToString(fr)
         ELSE ToString(fr))

(* str(value) *)
PyStr(v) ==
    CASE v.k = "text" -> v.s
      [] v.k = "int" -> ToString(v.n)
      [] v.k = "float" -> FloatStr(v.n, v.d)
      [] v.k = "nan" -> "nan"

----------------------------------------------------------------------------
(* Frames: a sequence of rows [ix |-> index label, c |-> column -> value]. *)

NumericCols == {"gm_reward_per_100", "volatility_sum", "best_bid",
                "best_ask", "min_size", "spread"}

(* pd.to_numeric(column, errors='coerce'): text becomes NaN; the column is *)
(* int64 when every cell is an int, else float64.                          *)
ColumnIsInt(recs, col) == \A i \in 1..Len(recs) : recs[i][col].k = "int"

ToNumeric(recs, col, v) ==
    IF v.k \in {"text", "nan"} THEN NaN
    ELSE IF ColumnIsInt(recs, col) THEN v
    ELSE FloatV(v.n, v.d)

(* astype(str) *)
AsStr(v) == Text(PyStr(v))

(* load_volatility_markets, lines 49-63, on a non-empty record list. *)
LoadFrame(recs) ==
    LET kept == SelectSeq(recs, LAMBDA r : r["question"] # Text(""))
    IN  [i \in 1..Len(kept) |->
            [ix |-> i - 1,
             c |-> [col \in DOMAIN kept[i] |->
                      IF col \in {"token1", "token2"} THEN AsStr(kept[i][col])
                      ELSE IF col \in NumericCols
                           THEN ToNumeric(kept, col, kept[i][col])
                      ELSE kept[i][col]]]]

(* calculate_scores: score = reward / (volatility + 1) * 100 *)
ScoreOf(reward, vol) ==
    IF IsNum(reward) /\ IsNum(vol)
    THEN FloatV(reward.n * vol.d * 100, reward.d * (vol.n + vol.d))
    ELSE NaN

WithCol(row, col, v) ==
    [ix |-> row.ix,
     c |-> [x \in DOMAIN row.c \cup {col} |-> IF x = col THEN v ELSE row.c[x]]]

calculate_scores(df) ==
    [i \in 1..Len(df) |->
        WithCol(df[i], "score",
                ScoreOf(df[i].c["gm_reward_per_100"], df[i].c["volatility_sum"]))]

(* The mask of filter_markets with min_size < MAX_MIN_SIZE *)
MaskExclusiveMinSize(row) ==
    /\ NumGE(row.c["gm_reward_per_100"], IntV(MIN_REWARD))
    /\ NumLT(row.c["volatility_sum"], IntV(MAX_VOLATILITY))
    /\ NumLT(row.c["spread"], MAX_SPREAD)
    /\ NumLT(row.c["min_size"], IntV(MAX_MIN_SIZE))

(* The boolean mask of filter_markets, lines 94-99 *)
Mask(row) ==
    /\ NumGE(row.c["gm_reward_per_100"], IntV(MIN_REWARD))
    /\ NumLT(row.c["volatility_sum"], IntV(MAX_VOLATILITY))
    /\ NumLT(row.c["spread"], MAX_SPREAD)
    /\ NumLE(row.c["min_size"], IntV(MAX_MIN_SIZE))

(* sort_values('score', ascending=False) with the default kind='quicksort', *)
(* which is not a stable sort: rows of equal score come out in any order.  *)
(* (No score is NaN after the mask: reward and volatility are numbers.)    *)
RECURSIVE SortOrders(_, _)
SortOrders(df, S) ==
    IF S = {} THEN {<<>>}
    ELSE LET top == {i \in S : \A j \in S :
                        NumGE(df[i].c["score"], df[j].c["score"])}
         IN  UNION {{<<df[i]>> \o t : t \in SortOrders(df, S \ {i})} : i \in top}

SortByScoreDesc(df) == SortOrders(df, 1..Len(df))

(* DataFrame.head(n) *)
HeadN(df, n) == IF Len(df) <= n THEN df ELSE SubSeq(df, 1, n)

(* prepare_selected_markets: astype(int).astype(str) truncates toward zero; *)
(* min_size is a non-negative number after the mask.                       *)
IntStr(v) == Text(ToString(v.n \div v.d))

prepare_selected_markets(df) ==
    [i \in 1..Len(df) |->
        WithCol(WithCol(WithCol(WithCol(df[i],
            "max_size", IntStr(df[i].c["min_size"])),
            "trade_size", IntStr(df[i].c["min_size"])),
            "param_type", Text(DEFAULT_PARAM_TYPE)),
            "multiplier", Text(DEFAULT_MULTIPLIER))]

(* row.get(h, '') then str(), line 190 *)
Cell(row, h) == IF h \in DOMAIN row.c THEN PyStr(row.c[h]) ELSE ""

row_values(row, hs) == [j \in 1..Len(hs) |-> Cell(row, hs[j])]

----------------------------------------------------------------------------
(* The sheets a run starts from *)

Cols == {"question", "token1", "token2", "gm_reward_per_100",
         "volatility_sum", "best_bid", "best_ask", "min_size", "spread"}

(* One record of get_all_records(): numeric cells arrive as int or float,  *)
(* anything else as text, an empty cell as ''.                             *)
Raw(q, i, reward, vol, bid, size, spread) ==
    [col \in Cols |->
        CASE col = "question" -> Text(q)
          [] col = "token1" -> IntV(10 * i + 1)
          [] col = "token2" -> IntV(10 * i + 2)
          [] col = "gm_reward_per_100" -> reward
          [] col = "volatility_sum" -> vol
          [] col = "best_bid" -> bid
          [] col = "best_ask" -> FloatV(45, 100)
          [] col = "min_size" -> size
          [] col = "spread" -> spread]

QName(i) == "q" \o ToString(i)

(* Pipeline runs: the record at position i is a blank row, a market that   *)
(* fails the reward threshold, or a qualifying market of reward i.         *)
PoolRecord(i, cl) ==
    CASE cl = "blank" ->
            Raw("", i, Text(""), Text(""), Text(""), Text(""), Text(""))
      [] cl = "bad" ->
            Raw(QName(i), i, FloatV(5, 10), IntV(1), FloatV(40, 100),
                IntV(100), FloatV(5, 100))
      [] cl = "good" ->
            Raw(QName(i), i, IntV(i), IntV(1), FloatV(40, 100),
                IntV(100), FloatV(5, 100))

PoolSheets ==
    UNION {{[i \in 1..n |-> PoolRecord(i, cls[i])] :
              cls \in [1..n -> {"blank", "bad", "good"}]} : n \in 0..MaxPool}

(* Value runs: one record drawn from the threshold values and the missing  *)
(* cells, followed by qualifying records of scores 100, 100 and 150, the   *)
(* last of them without a numeric best_bid.                                *)
ValueRecords ==
    {Raw(QName(1), 1, reward, vol, FloatV(40, 100), size, spread) :
        reward \in {Text(""), IntV(0), IntV(1)},
        vol \in {Text("N/A"), IntV(14), IntV(15)},
        size \in {Text(""), IntV(300), IntV(301)},
        spread \in {Text(""), FloatV(14, 100), FloatV(15, 100)}}

TieRecord(i, t) ==
    CASE t = 1 -> Raw(QName(i), i, IntV(2), IntV(1), FloatV(40, 100),
                      IntV(50), FloatV(5, 100))
      [] t = 2 -> Raw(QName(i), i, IntV(4), IntV(3), FloatV(40, 100),
                      IntV(60), FloatV(5, 100))
      [] t = 3 -> Raw(QName(i), i, IntV(3), IntV(1), Text("N/A"),
                      IntV(70), FloatV(5, 100))

ValueSheets ==
    UNION {{[i \in 1..(n + 1) |->
                IF i = 1 THEN first ELSE TieRecord(i, ts[i - 1])] :
              first \in ValueRecords, ts \in [1..n -> 1..3]} : n \in 0..MaxExtra}

HeaderMain == <<"question", "max_size", "trade_size", "param_type",
                "multiplier", "comments">>
HeaderAlt == <<"best_bid", "question", "spread", "min_size", "comments">>

OldRow(j, hs) == [x \in 1..Len(hs) |-> "old" \o ToString(j)]

SelectedSheet(hs, n) == <<hs>> \o [j \in 1..n |-> OldRow(j, hs)]

----------------------------------------------------------------------------
(* get_sheet_df is not running in the runs of select_markets. *)

SheetIdle ==
    /\ spc = "off"
    /\ selRecords = <<>>
    /\ allRecords = <<>>
    /\ hypRecords = <<>>
    /\ result = <<>>
    /\ hyperparams = <<>>
    /\ current_type = <<>>
    /\ hpos = 0

MainStart ==
    /\ pc = "connect"
    /\ exitStatus = -1
    /\ vol_df = <<>>
    /\ filtered_df = <<>>
    /\ top_markets = <<>>
    /\ prior = sheet
    /\ headers = <<>>
    /\ pos = 0
    /\ deleteCalls = 0
    /\ appendCalls = 0
    /\ clearOutcome = "none"
    /\ diagnostic = "none"
    /\ appendFailedAt = 0

Init ==
    /\ rawRecords \in PoolSheets
    /\ sheet \in {SelectedSheet(HeaderMain, n) : n \in 0..MaxPrior}
    /\ MainStart
    /\ SheetIdle

InitValues ==
    /\ rawRecords \in ValueSheets
    /\ sheet \in {SelectedSheet(hs, 1) : hs \in {HeaderMain, HeaderAlt}}
    /\ MainStart
    /\ SheetIdle

----------------------------------------------------------------------------
(* main() of select_markets.py *)

(* sys.exit(1) after a diagnostic, or an uncaught exception (status 1) *)
Fail(diag) ==
    /\ pc' = "done"
    /\ exitStatus' = 1
    /\ diagnostic' = diag

Goto(label) ==
    /\ pc' = label
    /\ UNCHANGED <<exitStatus, diagnostic>>

(* lines 233-239: get_spreadsheet() *)
Connect ==
    /\ pc = "connect"
    /\ \E ok \in BOOLEAN : IF ok THEN Goto("load") ELSE Fail("connect")
    /\ UNCHANGED <<rawRecords, vol_df, filtered_df, top_markets, sheet, prior,
                   headers, pos, deleteCalls, appendCalls, clearOutcome,
                   appendFailedAt>>
    /\ UNCHANGED sheetVars

(* lines 47-70: a failed read, or a sheet without data rows (the frame has *)
(* no 'question' column, KeyError), ends the run with status 1.            *)
LoadVolatilityMarkets ==
    /\ pc = "load"
    /\ \E ok \in BOOLEAN :
          IF ok /\ rawRecords # <<>>
          THEN /\ vol_df' = LoadFrame(rawRecords)
               /\ Goto("score")
          ELSE /\ Fail("load")
               /\ UNCHANGED vol_df
    /\ UNCHANGED <<rawRecords, filtered_df, top_markets, sheet, prior,
                   headers, pos, deleteCalls, appendCalls, clearOutcome,
                   appendFailedAt>>
    /\ UNCHANGED sheetVars

(* line 245 *)
CalculateScores ==
    /\ pc = "score"
    /\ vol_df' = calculate_scores(vol_df)
    /\ Goto("filter")
    /\ UNCHANGED <<rawRecords, filtered_df, top_markets, sheet, prior,
                   headers, pos, deleteCalls, appendCalls, clearOutcome,
                   appendFailedAt>>
    /\ UNCHANGED sheetVars

(* line 248: filter_markets *)
FilterMarkets ==
    /\ pc = "filter"
    /\ filtered_df' \in SortByScoreDesc(SelectSeq(vol_df, Mask))
    /\ Goto("select")
    /\ UNCHANGED <<rawRecords, vol_df, top_markets, sheet, prior, headers,
                   pos, deleteCalls, appendCalls, clearOutcome,
                   appendFailedAt>>
    /\ UNCHANGED sheetVars

(* lines 250-260, with a partial selection treated like an empty one *)
SelectTopPartialFatal ==
    /\ pc = "select"
    /\ IF Len(filtered_df) < TOP_N
       THEN /\ Fail("empty")
            /\ UNCHANGED top_markets
       ELSE /\ top_markets' = HeadN(filtered_df, TOP_N)
            /\ Goto("prepare")
    /\ UNCHANGED <<rawRecords, vol_df, filtered_df, sheet, prior, headers,
                   pos, deleteCalls, appendCalls, clearOutcome,
                   appendFailedAt>>
    /\ UNCHANGED sheetVars

(* lines 250-260, without the exit on an empty selection *)
SelectTopNoExit ==
    /\ pc = "select"
    /\ top_markets' = HeadN(filtered_df, TOP_N)
    /\ Goto("prepare")
    /\ UNCHANGED <<rawRecords, vol_df, filtered_df, sheet, prior, headers,
                   pos, deleteCalls, appendCalls, clearOutcome,
                   appendFailedAt>>
    /\ UNCHANGED sheetVars

(* lines 250-260 *)
SelectTop ==
    /\ pc = "select"
    /\ IF Len(filtered_df) = 0
       THEN /\ Fail("empty")
            /\ UNCHANGED top_markets
       ELSE /\ top_markets' = HeadN(filtered_df, TOP_N)
            /\ Goto("prepare")
    /\ UNCHANGED <<rawRecords, vol_df, filtered_df, sheet, prior, headers,
                   pos, deleteCalls, appendCalls, clearOutcome,
                   appendFailedAt>>
    /\ UNCHANGED sheetVars

(* lines 263-270; spreadsheet.worksheet('Selected Markets') may raise, and *)
(* nothing catches it.                                                     *)
PrepareSelected ==
    /\ pc = "prepare"
    /\ top_markets' = prepare_selected_markets(top_markets)
    /\ \E ok \in BOOLEAN : IF ok THEN Goto("clear") ELSE Fail("worksheet")
    /\ UNCHANGED <<rawRecords, vol_df, filtered_df, sheet, prior, headers,
                   pos, deleteCalls, appendCalls, clearOutcome,
                   appendFailedAt>>
    /\ UNCHANGED sheetVars

(* clear_selected_markets, lines 158-172, as called on line 273: the       *)
(* except clause swallows every failure and main ignores the value         *)
(* returned.  read: get_all_values() returned; del: delete_rows() returned.*)
ClearSelectedMarkets ==
    /\ pc = "clear"
    /\ \E read \in BOOLEAN, del \in BOOLEAN :
          IF ~read
          THEN /\ del
               /\ clearOutcome' = "read_failed"
               /\ UNCHANGED <<sheet, deleteCalls>>
          ELSE IF Len(sheet) - 1 > 0
          THEN /\ deleteCalls' = deleteCalls + 1
               /\ IF del
                  THEN sheet' = <<sheet[1]>> /\ clearOutcome' = "deleted"
                  ELSE clearOutcome' = "delete_failed" /\ UNCHANGED sheet
          ELSE /\ del
               /\ clearOutcome' = "nothing"
               /\ UNCHANGED <<sheet, deleteCalls>>
    /\ Goto("headers")
    /\ UNCHANGED <<rawRecords, vol_df, filtered_df, top_markets, prior,
                   headers, pos, appendCalls, appendFailedAt>>
    /\ UNCHANGED sheetVars

(* update_selected_markets, line 184; a failure returns False (line 205)   *)
(* and main exits with status 1 (line 286).                                *)
ReadHeaders ==
    /\ pc = "headers"
    /\ \E ok \in BOOLEAN :
          IF ok
          THEN /\ headers' = sheet[1]
               /\ Goto("append")
          ELSE /\ Fail("update")
               /\ UNCHANGED headers
    /\ UNCHANGED <<rawRecords, vol_df, filtered_df, top_markets, sheet, prior,
                   pos, deleteCalls, appendCalls, clearOutcome,
                   appendFailedAt>>
    /\ UNCHANGED sheetVars

(* lines 188-192, with a failed append skipped instead of ending the loop *)
AppendRowSkipsFailure ==
    /\ pc = "append"
    /\ pos < Len(top_markets)
    /\ appendCalls' = appendCalls + 1
    /\ \E ok \in BOOLEAN :
          IF ok
          THEN /\ sheet' = Append(sheet, row_values(top_markets[pos + 1], headers))
               /\ UNCHANGED appendFailedAt
          ELSE /\ appendFailedAt' = pos + 1
               /\ UNCHANGED sheet
    /\ pos' = pos + 1
    /\ UNCHANGED <<pc, exitStatus, diagnostic>>
    /\ UNCHANGED <<rawRecords, vol_df, filtered_df, top_markets, prior,
                   headers, deleteCalls, clearOutcome>>
    /\ UNCHANGED sheetVars

(* update_selected_markets, lines 188-192: one iteration of the loop; an   *)
(* append_row that raises ends the loop (line 203), False is returned and  *)
(* main exits with status 1 (line 286).                                    *)
AppendRow ==
    /\ pc = "append"
    /\ pos < Len(top_markets)
    /\ appendCalls' = appendCalls + 1
    /\ \E ok \in BOOLEAN :
          IF ok
          THEN /\ sheet' = Append(sheet, row_values(top_markets[pos + 1], headers))
               /\ pos' = pos + 1
               /\ UNCHANGED <<pc, exitStatus, diagnostic, appendFailedAt>>
          ELSE /\ appendFailedAt' = pos + 1
               /\ Fail("update")
               /\ UNCHANGED <<sheet, pos>>
    /\ UNCHANGED <<rawRecords, vol_df, filtered_df, top_markets, prior,
                   headers, deleteCalls, clearOutcome>>
    /\ UNCHANGED sheetVars

(* lines 200-201 and 278-283: the loop is over, True is returned, main     *)
(* reports completion and returns (status 0).                              *)
ReportComplete ==
    /\ pc = "append"
    /\ pos = Len(top_markets)
    /\ pc' = "done"
    /\ exitStatus' = 0
    /\ UNCHANGED <<rawRecords, vol_df, filtered_df, top_markets, sheet, prior,
                   headers, pos, deleteCalls, appendCalls, clearOutcome,
                   diagnostic, appendFailedAt>>
    /\ UNCHANGED sheetVars

Next ==
    \/ Connect
    \/ LoadVolatilityMarkets
    \/ CalculateScores
    \/ FilterMarkets
    \/ SelectTop
    \/ PrepareSelected
    \/ ClearSelectedMarkets
    \/ ReadHeaders
    \/ AppendRow
    \/ ReportComplete

Spec == Init /\ [][Next]_vars

SpecValues == InitValues /\ [][Next]_vars

----------------------------------------------------------------------------
(* Vocabulary of the properties of select_markets.py *)

(* The cell holds a number: numeric coercion does not yield the missing    *)
(* value marker.                                                           *)
Present(cell) == cell.k \in {"int", "float"}

(* The record of the source sheet is a candidate that meets all four       *)
(* thresholds, each field being present.                                   *)
Qualifies(r) ==
    /\ r["question"] # Text("")
    /\ Present(r["gm_reward_per_100"]) /\ Present(r["volatility_sum"])
    /\ Present(r["spread"]) /\ Present(r["min_size"])
    /\ r["gm_reward_per_100"].n >= MIN_REWARD * r["gm_reward_per_100"].d
    /\ r["volatility_sum"].n < MAX_VOLATILITY * r["volatility_sum"].d
    /\ r["spread"].n * MAX_SPREAD.d < MAX_SPREAD.n * r["spread"].d
    /\ r["min_size"].n <= MAX_MIN_SIZE * r["min_size"].d

QualifyingQuestions ==
    {rawRecords[i]["question"].s :
        i \in {j \in 1..Len(rawRecords) : Qualifies(rawRecords[j])}}

Questions(df) == {df[i].c["question"].s : i \in 1..Len(df)}

FilterRan ==
    \/ pc \in {"select", "prepare", "clear", "headers", "append"}
    \/ pc = "done" /\ diagnostic \notin {"connect", "load"}

SelectRan ==
    \/ pc \in {"prepare", "clear", "headers", "append"}
    \/ pc = "done" /\ diagnostic \notin {"connect", "load", "empty"}

(* The rows of the selection laid out under the header hs, in the order    *)
(* the selection was produced.                                             *)
SelectionRows(hs) ==
    [i \in 1..Len(top_markets) |-> row_values(top_markets[i], hs)]

(* C1: after a sync that main reports as complete, the destination holds   *)
(* the unchanged header row followed by exactly the selected records, in   *)
(* selection order, and no row of its prior content, whatever the prior    *)
(* content was and whatever delete_rows did.                               *)
C1_SuccessfulSyncReplacesContent ==
    (pc = "done" /\ exitStatus = 0) =>
        sheet = <<prior[1]>> \o SelectionRows(prior[1])

(* C2: when no candidate record passes the filter, delete_rows and         *)
(* append_row are never called, the destination keeps its prior content,   *)
(* the run never reaches the sync and never ends with status zero.         *)
C2_EmptySelectionWritesNothing ==
    (QualifyingQuestions = {}) =>
        /\ deleteCalls = 0
        /\ appendCalls = 0
        /\ sheet = prior
        /\ pc \notin {"prepare", "clear", "headers", "append"}
        /\ exitStatus # 0
        /\ (pc = "done" => exitStatus = 1)

(* a run over candidates none of which qualifies, with rows to lose *)
C2_EmptySelectionExit ==
    /\ QualifyingQuestions = {}
    /\ Len(vol_df) >= 2
    /\ Len(prior) > 1
    /\ pc = "done"
    /\ diagnostic = "empty"

(* C3: a failed store call of the sync, the delete_rows of the clear phase *)
(* or an append_row, makes the run end with a non-zero status; status zero *)
(* means the source loaded, a candidate qualified and every delete and     *)
(* append call succeeded.                                                  *)
C3_SyncWriteFailureIsFatal ==
    /\ (clearOutcome = "delete_failed" \/ appendFailedAt > 0) =>
            exitStatus # 0
    /\ (exitStatus = 0) =>
            /\ Len(vol_df) > 0
            /\ QualifyingQuestions # {}
            /\ clearOutcome \in {"deleted", "nothing"}
            /\ appendFailedAt = 0

(* C4: when the deletion succeeded and the k-th append_row failed, the run *)
(* has ended with status 1 after exactly k append calls, and the           *)
(* destination holds the header and the first k-1 selected records in      *)
(* selection order, none of the prior rows.                                *)
C4_AppendFailureLeavesPrefix ==
    \A k \in 1..TOP_N :
        (clearOutcome = "deleted" /\ appendFailedAt = k) =>
            /\ pc = "done"
            /\ exitStatus = 1
            /\ appendCalls = k
            /\ sheet = <<prior[1]>> \o SubSeq(SelectionRows(prior[1]), 1, k - 1)

(* prior rows deleted, two of five records appended, the third failed *)
C4_ThirdAppendFailed ==
    /\ clearOutcome = "deleted"
    /\ Len(prior) > 1
    /\ appendFailedAt = 3
    /\ Len(top_markets) = TOP_N

(* C6: once filter_markets has run, its output holds exactly the           *)
(* candidates whose four fields are all present and meet all four          *)
(* thresholds (reward >= MIN_REWARD, volatility < MAX_VOLATILITY, spread < *)
(* MAX_SPREAD, min_size <= MAX_MIN_SIZE), each of them once.               *)
C6_FilterIsStrictConjunction ==
    FilterRan =>
        /\ Questions(filtered_df) = QualifyingQuestions
        /\ Len(filtered_df) = Cardinality(QualifyingQuestions)

(* a record at min_size = MAX_MIN_SIZE and volatility just under the bound *)
C6_InclusiveMinSizePasses ==
    /\ FilterRan
    /\ rawRecords[1]["min_size"] = IntV(MAX_MIN_SIZE)
    /\ rawRecords[1]["volatility_sum"] = IntV(MAX_VOLATILITY - 1)
    /\ QName(1) \in Questions(filtered_df)
    /\ Len(filtered_df) = 2

(* C7: the output of filter_markets is non-increasing by score, records of *)
(* equal score keep their relative input order, and the selection is the   *)
(* first TOP_N records of that order.                                      *)
C7_SelectionIsStableDescending ==
    /\ FilterRan =>
          \A i, j \in 1..Len(filtered_df) :
              i < j =>
                /\ NumGE(filtered_df[i].c["score"], filtered_df[j].c["score"])
                /\ NumEQ(filtered_df[i].c["score"], filtered_df[j].c["score"])
                      => filtered_df[i].ix < filtered_df[j].ix
    /\ SelectRan =>
          /\ Len(top_markets) = Len(HeadN(filtered_df, TOP_N))
          /\ \A i \in 1..Len(top_markets) : top_markets[i].ix = filtered_df[i].ix

(* C9: with k >= 1 qualifying records the run does not take the empty      *)
(* selection exit; the selection holds exactly the k qualifying records    *)
(* when k < TOP_N and exactly TOP_N of them otherwise; and the run ends    *)
(* with status zero when every append call of the sync succeeded.          *)
C9_PartialSelectionProceeds ==
    LET k == Cardinality(QualifyingQuestions)
    IN  /\ (k >= 1) => diagnostic # "empty"
        /\ SelectRan =>
              /\ Len(top_markets) = IF k < TOP_N THEN k ELSE TOP_N
              /\ Cardinality(Questions(top_markets)) = Len(top_markets)
              /\ Questions(top_markets) \subseteq QualifyingQuestions
        /\ (pc = "done" /\ k >= 1 /\ appendFailedAt = 0
                /\ appendCalls = Len(top_markets) /\ appendCalls >= 1) =>
              exitStatus = 0

(* three of the candidates qualify and the run completes with them *)
C9_ThreeOfFiveSelected ==
    /\ Cardinality(QualifyingQuestions) = 3
    /\ Len(vol_df) > 3
    /\ Len(top_markets) = 3
    /\ pc = "done"
    /\ exitStatus = 0

(* C10: every appended row has one cell per header column, in header       *)
(* order; the cell is the record's value for that header, and the empty    *)
(* string when the record has no such field or the field holds the         *)
(* missing-value marker.                                                   *)
ExpectedCell(row, h) ==
    IF h \notin DOMAIN row.c \/ row.c[h].k = "nan" THEN "" ELSE PyStr(row.c[h])

C10_RowLayoutOnAppend ==
    \A p \in 1..pos :
        LET written == sheet[Len(sheet) - pos + p]
        IN  /\ Len(written) = Len(headers)
            /\ \A j \in 1..Len(headers) :
                  written[j] = ExpectedCell(top_markets[p], headers[j])

----------------------------------------------------------------------------
(* get_sheet_df (poly_data/utils.py).                                      *)
(* A record of get_all_records() is an ordered dict: a sequence of         *)
(* <<key, value>> pairs.  The strings that the parameter loop trims and    *)
(* scans (the type and value cells of 'Hyperparameters') are sequences of  *)
(* characters; every other string is a TLA+ string.                        *)

Range(s) == {s[i] : i \in 1..Len(s)}

Keys(rec) == [i \in 1..Len(rec) |-> rec[i][1]]

AsMap(rec) ==
    [key \in Range(Keys(rec)) |->
        rec[CHOOSE i \in 1..Len(rec) : rec[i][1] = key][2]]

(* pd.DataFrame(list of dicts): no record, no column. *)
DataFrame(recs) ==
    IF recs = <<>> THEN [cols |-> <<>>, rows |-> <<>>]
    ELSE [cols |-> Keys(recs[1]),
          rows |-> [i \in 1..Len(recs) |-> AsMap(recs[i])]]

(* df[df['question'] != ""].reset_index(drop=True) *)
DropBlank(df) ==
    [cols |-> df.cols,
     rows |-> SelectSeq(df.rows, LAMBDA r : r["question"] # Text(""))]

(* line 46 *)
cols_to_add(df, df2) == SelectSeq(df2.cols, LAMBDA col : col \notin Range(df.cols))

(* line 49: df2[['question'] + cols_to_add] *)
df2_filtered(df, df2) ==
    LET keep == <<"question">> \o cols_to_add(df, df2)
    IN  [cols |-> keep,
         rows |-> [i \in 1..Len(df2.rows) |->
                     [col \in Range(keep) |-> df2.rows[i][col]]]]

RECURSIVE Flatten(_)
Flatten(ss) == IF ss = <<>> THEN <<>> ELSE Head(ss) \o Flatten(Tail(ss))

(* left.merge(right, on='question', how='inner'): the rows of left in      *)
(* order, each joined with every row of right that has its question; the   *)
(* only column the two frames share is 'question'.                         *)
InnerMerge(left, right) ==
    LET cols == left.cols \o SelectSeq(right.cols, LAMBDA col : col # "question")
        Join(l, r) == [col \in Range(cols) |->
                          IF col \in Range(left.cols) THEN l[col] ELSE r[col]]
        Matches(l) == SelectSeq(right.rows,
                                LAMBDA r : r["question"] = l["question"])
    IN  [cols |-> cols,
         rows |-> Flatten([i \in 1..Len(left.rows) |->
                     [j \in 1..Len(Matches(left.rows[i])) |->
                         Join(left.rows[i], Matches(left.rows[i])[j])]])]

(* lines 46-51 with every column of df2 kept: pandas then renames the      *)
(* shared columns (_x, _y); here the secondary's value lands in them.      *)
MergeSecondaryWins(df, df2) ==
    LET cols == df.cols \o cols_to_add(df, df2)
        Matches(l) == SelectSeq(df2.rows,
                                LAMBDA r : r["question"] = l["question"])
    IN  [cols |-> cols,
         rows |-> Flatten([i \in 1..Len(df.rows) |->
                     [j \in 1..Len(Matches(df.rows[i])) |->
                         [col \in Range(cols) |->
                            IF col \in Range(df2.cols)
                            THEN Matches(df.rows[i])[j][col]
                            ELSE df.rows[i][col]]]])]

(* lines 46-51 *)
MergeFrames(df, df2) == InnerMerge(df, df2_filtered(df, df2))

----------------------------------------------------------------------------
(* The parameter loop, lines 57-77 *)

DigitChar == <<"0", "1", "2", "3", "4", "5", "6", "7", "8", "9">>

IsDigit(ch) == ch \in Range(DigitChar)

DigitVal(ch) == (CHOOSE i \in 1..10 : DigitChar[i] = ch) - 1

RECURSIVE NatChars(_)
NatChars(n) ==
    IF n < 10 THEN <<DigitChar[n + 1]>>
    ELSE NatChars(n \div 10) \o <<DigitChar[(n % 10) + 1]>>

(* str(value) of a type cell: a string, an int, or the float NaN *)
PyChars(v) ==
    CASE v.k = "text" -> v.s
      [] v.k = "int" -> IF v.n < 0 THEN <<"-">> \o NatChars(-v.n) ELSE NatChars(v.n)
      [] v.k = "nan" -> <<"n", "a", "n">>

(* bool(value) *)
Truthy(v) ==
    CASE v.k = "text" -> v.s # <<>>
      [] v.k = "int" -> v.n # 0
      [] v.k = "float" -> v.n # 0
      [] v.k = "nan" -> TRUE

IsSpace(ch) == ch \in {" ", "\t", "\n"}

RECURSIVE LStrip(_)
LStrip(cs) ==
    IF cs # <<>> /\ IsSpace(Head(cs)) THEN LStrip(Tail(cs)) ELSE cs

RECURSIVE RStrip(_)
RStrip(cs) ==
    IF cs # <<>> /\ IsSpace(cs[Len(cs)])
    THEN RStrip(SubSeq(cs, 1, Len(cs) - 1)) ELSE cs

(* str.strip() *)
Strip(cs) == RStrip(LStrip(cs))

(* str.replace(ch, '') *)
Without(cs, ch) == SelectSeq(cs, LAMBDA x : x # ch)

(* str.isdigit() *)
IsDigitStr(cs) == cs # <<>> /\ \A i \in 1..Len(cs) : IsDigit(cs[i])

RECURSIVE NatOf(_)
NatOf(cs) ==
    IF cs = <<>> THEN 0
    ELSE NatOf(SubSeq(cs, 1, Len(cs) - 1)) * 10 + DigitVal(cs[Len(cs)])

RECURSIVE Pow10(_)
Pow10(e) == IF e = 0 THEN 1 ELSE 10 * Pow10(e - 1)

(* float(s) on a string of digits, '.' and '-' that holds a digit: it      *)
(* parses when '-' only leads and there is at most one '.'.                *)
FloatParses(cs) ==
    LET body == IF Head(cs) = "-" THEN Tail(cs) ELSE cs
    IN  /\ \A i \in 1..Len(body) : body[i] # "-"
        /\ Len(SelectSeq(body, LAMBDA x : x = ".")) <= 1

FloatOf(cs) ==
    LET neg == Head(cs) = "-"
        body == IF neg THEN Tail(cs) ELSE cs
        dots == {i \in 1..Len(body) : body[i] = "."}
        frac == IF dots = {} THEN 0 ELSE Len(body) - (CHOOSE i \in dots : TRUE)
        mag == NatOf(Without(body, "."))
    IN  FloatV(IF neg THEN -mag ELSE mag, Pow10(frac))

(* lines 67-75 *)
ConvertValue(v) ==
    IF v.k = "text"
    THEN IF IsDigitStr(Without(Without(v.s, "."), "-")) /\ FloatParses(v.s)
         THEN FloatOf(v.s) ELSE v
    ELSE IF v.k \in {"int", "float"} THEN FloatV(v.n, v.d)
    ELSE v

(* line 61 *)
UpdatesType(tv) ==
    /\ Truthy(tv)
    /\ Strip(PyChars(tv)) # <<>>
    /\ PyChars(tv) # <<"n", "a", "n">>

(* lines 60-62 *)
NextType(cur, tv) == IF UpdatesType(tv) THEN Strip(PyChars(tv)) ELSE cur

(* line 77: hyperparams.setdefault(current_type, {})[param] = value *)
SetParam(h, section, param, value) ==
    LET old == IF section \in DOMAIN h THEN h[section] ELSE <<>>
        new == [x \in DOMAIN old \cup {param} |->
                   IF x = param THEN value ELSE old[x]]
    IN  [x \in DOMAIN h \cup {section} |-> IF x = section THEN new ELSE h[x]]

----------------------------------------------------------------------------
(* The sheets get_sheet_df starts from *)

TextC(cs) == [k |-> "text", n |-> 0, d |-> 1, s |-> cs]

SelHeaders == {<<"question", "max_size">>,
               <<"question", "max_size", "best_bid">>}
AllHeaders == {<<"question", "best_bid", "token1">>,
               <<"max_size", "question", "token1">>}

(* The record of sheet src for question q: every other cell names its      *)
(* sheet, column and question; a blank row is blank throughout.            *)
SheetRecord(src, hs, q) ==
    [i \in 1..Len(hs) |->
        <<hs[i], IF hs[i] = "question" \/ q = "" THEN Text(q)
                 ELSE Text(src \o "." \o hs[i] \o "." \o q)>>]

QuestionLists(n) == UNION {[1..m -> {"", "q1", "q2", "q3"}] : m \in 0..n}

Records(src, hs, qs) == [i \in 1..Len(qs) |-> SheetRecord(src, hs, qs[i])]

TypeCells == {TextC(<<>>), TextC(<<" ">>), NaN, TextC(<<"A">>),
              TextC(<<" ", "B", " ">>), IntV(0)}

ParamValues == {<<"x", TextC(<<"1">>)>>, <<"y", TextC(<<"2">>)>>,
                <<"z", IntV(3)>>, <<"x", TextC(<<"1", "-", "2">>)>>,
                <<"y", TextC(<<"-", "1", ".", "5">>)>>}

HypRows == {[type |-> tv, param |-> pv[1], value |-> pv[2]] :
               tv \in TypeCells, pv \in ParamValues}

HypSheets(n) == UNION {[1..m -> HypRows] : m \in 0..n}

MainIdle ==
    /\ pc = "off"
    /\ exitStatus = -1
    /\ rawRecords = <<>>
    /\ vol_df = <<>>
    /\ filtered_df = <<>>
    /\ top_markets = <<>>
    /\ sheet = <<>>
    /\ prior = <<>>
    /\ headers = <<>>
    /\ pos = 0
    /\ deleteCalls = 0
    /\ appendCalls = 0
    /\ clearOutcome = "none"
    /\ diagnostic = "none"
    /\ appendFailedAt = 0

SheetStart ==
    /\ spc = "open"
    /\ result = [cols |-> <<>>, rows |-> <<>>]
    /\ hyperparams = <<>>
    /\ current_type = <<>>
    /\ hpos = 0

InitMerge ==
    /\ \E hs \in SelHeaders, qs \in QuestionLists(MaxRows) :
          selRecords = Records("sel", hs, qs)
    /\ \E hs \in AllHeaders, qs \in QuestionLists(MaxRows) :
          allRecords = Records("all", hs, qs)
    /\ hypRecords \in {<<>>, <<[type |-> TextC(<<"A">>), param |-> "x",
                              value |-> IntV(3)]>>}
    /\ SheetStart
    /\ MainIdle

InitParse ==
    /\ selRecords \in {Records("sel", <<"question", "max_size">>, qs) :
                          qs \in {<<>>, <<"q1">>}}
    /\ allRecords = Records("all", <<"question", "token1">>, <<"q1">>)
    /\ hypRecords \in HypSheets(MaxHyp)
    /\ SheetStart
    /\ MainIdle

----------------------------------------------------------------------------
(* The steps of get_sheet_df *)

(* lines 24-34: get_spreadsheet(); FileNotFoundError falls back to         *)
(* read-only mode, any other failure propagates.                           *)
OpenSpreadsheet ==
    /\ spc = "open"
    /\ \E ok \in BOOLEAN : spc' = IF ok THEN "merge" ELSE "error"
    /\ UNCHANGED <<selRecords, allRecords, hypRecords, result, hyperparams,
                   current_type, hpos>>
    /\ UNCHANGED mainVars

(* lines 36-51: a sheet without data rows gives a frame without columns,   *)
(* and df['question'] raises KeyError.                                     *)
MergeSheets ==
    /\ spc = "merge"
    /\ LET df == DataFrame(selRecords)
           df2 == DataFrame(allRecords)
       IN  IF "question" \in Range(df.cols) /\ "question" \in Range(df2.cols)
           THEN /\ result' = MergeFrames(DropBlank(df), DropBlank(df2))
                /\ spc' = "params"
           ELSE /\ spc' = "error"
                /\ UNCHANGED result
    /\ UNCHANGED <<selRecords, allRecords, hypRecords, hyperparams,
                   current_type, hpos>>
    /\ UNCHANGED mainVars

(* lines 57-77: one iteration of the loop over the records *)
ParseRecord ==
    /\ spc = "params"
    /\ hpos < Len(hypRecords)
    /\ LET r == hypRecords[hpos + 1]
           cur == NextType(current_type, r.type)
       IN  /\ current_type' = cur
           /\ hyperparams' =
                 IF cur # <<>>
                 THEN SetParam(hyperparams, cur, r.param, ConvertValue(r.value))
                 ELSE hyperparams
    /\ hpos' = hpos + 1
    /\ UNCHANGED <<spc, selRecords, allRecords, hypRecords, result>>
    /\ UNCHANGED mainVars

(* line 79 *)
ReturnSheetDf ==
    /\ spc = "params"
    /\ hpos = Len(hypRecords)
    /\ spc' = "done"
    /\ UNCHANGED <<selRecords, allRecords, hypRecords, result, hyperparams,
                   current_type, hpos>>
    /\ UNCHANGED mainVars

NextSheet ==
    \/ OpenSpreadsheet
    \/ MergeSheets
    \/ ParseRecord
    \/ ReturnSheetDf

SpecMerge == InitMerge /\ [][NextSheet]_vars

SpecParse == InitParse /\ [][NextSheet]_vars

----------------------------------------------------------------------------
(* Vocabulary of the properties of get_sheet_df *)

(* The records of a sheet that the merge works on: those with a question *)
Keyed(recs) ==
    SelectSeq([i \in 1..Len(recs) |-> AsMap(recs[i])],
              LAMBDA r : r["question"] # Text(""))

KeySet(recs) == {Keyed(recs)[i]["question"] : i \in 1..Len(Keyed(recs))}

UniqueKeys(recs) == Cardinality(KeySet(recs)) = Len(Keyed(recs))

RecordOf(recs, q) ==
    Keyed(recs)[CHOOSE i \in 1..Len(Keyed(recs)) : Keyed(recs)[i]["question"] = q]

Merged == spc \in {"params", "done"}

(* C8: when the question keys of the primary P ('Selected Markets') and of *)
(* the secondary S ('All Markets') are non-empty and unique, the merged    *)
(* frame has one record for each question present in both and no other;    *)
(* its columns are those of P and of S, each once; a column of P carries   *)
(* P's value, a column only in S carries the value of S's record for the   *)
(* same question.                                                          *)
C8_MergeIsInnerJoinPrimaryWins ==
    (Merged /\ UniqueKeys(selRecords) /\ UniqueKeys(allRecords)) =>
        LET P == Range(Keys(selRecords[1]))
            S == Range(Keys(allRecords[1]))
            rows == result.rows
        IN  /\ {rows[i]["question"] : i \in 1..Len(rows)}
                  = KeySet(selRecords) \cap KeySet(allRecords)
            /\ Len(rows) = Cardinality(KeySet(selRecords) \cap KeySet(allRecords))
            /\ Range(result.cols) = P \cup S
            /\ Len(result.cols) = Cardinality(P \cup S)
            /\ \A i \in 1..Len(rows) :
                  /\ DOMAIN rows[i] = P \cup S
                  /\ \A col \in P :
                        rows[i][col]
                          = RecordOf(selRecords, rows[i]["question"])[col]
                  /\ \A col \in S \ P :
                        rows[i][col]
                          = RecordOf(allRecords, rows[i]["question"])[col]

(* P and S share max_size, and one of two questions of each is in both *)
C8_SharedColumnJoined ==
    /\ Merged
    /\ UniqueKeys(selRecords) /\ UniqueKeys(allRecords)
    /\ Len(result.rows) = 1
    /\ Len(Keyed(selRecords)) = 2
    /\ Len(Keyed(allRecords)) = 2
    /\ Range(Keys(selRecords[1])) \cap Range(Keys(allRecords[1]))
          = {"question", "max_size"}

(* The type cell is non-empty after trimming and is not the missing-value  *)
(* placeholder.                                                            *)
StartsSection(tv) == tv.k # "nan" /\ Strip(PyChars(tv)) # <<>>

(* The most recent row at or before row j whose type starts a section;     *)
(* 0 when there is none.                                                   *)
Owner(j) ==
    LET S == {i \in 1..j : StartsSection(hypRecords[i].type)}
    IN  IF S = {} THEN 0 ELSE CHOOSE i \in S : \A x \in S : x <= i

SectionOf(j) == Strip(PyChars(hypRecords[Owner(j)].type))

(* The map of the first n rows: each row under the section of its owner,   *)
(* the rows before the first section dropped, a later row of the same      *)
(* section and param replacing an earlier one.                             *)
SectionMap(n) ==
    LET stored == {j \in 1..n : Owner(j) # 0}
        Last(sec, par) ==
            CHOOSE j \in stored :
                /\ SectionOf(j) = sec /\ hypRecords[j].param = par
                /\ \A x \in stored :
                      (SectionOf(x) = sec /\ hypRecords[x].param = par) => x <= j
    IN  [sec \in {SectionOf(j) : j \in stored} |->
            [par \in {hypRecords[j].param : j \in {x \in stored : SectionOf(x) = sec}} |->
                ConvertValue(hypRecords[Last(sec, par)].value)]]

ExampleRows ==
    <<[type |-> TextC(<<"A">>), param |-> "x", value |-> TextC(<<"1">>)],
      [type |-> TextC(<<>>), param |-> "y", value |-> TextC(<<"2">>)],
      [type |-> TextC(<<" ", "B", " ">>), param |-> "z", value |-> IntV(3)]>>

(* C5: the parameter loop stores each row under the trimmed type of the    *)
(* most recent row whose type is non-empty after trimming and is not a     *)
(* missing-value placeholder, and drops the rows that precede the first    *)
(* such row; the rows (A,x,1), ('',y,2), (B,z,3) give                      *)
(* {A: {x: 1.0, y: 2.0}, B: {z: 3.0}}.                                     *)
C5_SectionAssignment ==
    /\ Merged => hyperparams = SectionMap(hpos)
    /\ (spc = "done" /\ hypRecords = ExampleRows) =>
          hyperparams = (<<"A">> :> ("x" :> FloatV(1, 1) @@ "y" :> FloatV(2, 1))
                         @@ <<"B">> :> ("z" :> FloatV(3, 1)))

====
